---- MODULE Spec2Model ----
(***************************************************************************)
(* Model of cached_downloader.go: the store (cachedFiles, guarded by       *)
(* lock), the files of the cache directory and of the scratch directory,   *)
(* and every Fetch call as a process that steps through fetchCachedFile /  *)
(* fetchUncachedFile one lock section or file operation at a time.         *)
(*                                                                         *)
(* time.Now() is a logical clock: every reading recorded in the store is   *)
(* larger than every earlier one; 0 is the zero time.Time.                 *)
(* ioutil.TempFile picks a fresh random name; the name created by call p   *)
(* is modelled by p itself.                                                *)
(* A path is a record [dir, base]; the empty string is EmptyPath.          *)
(***************************************************************************)
EXTENDS Integers, FiniteSets, Sequences, TLC

\* ---- bounds ----
\* Fetch calls made in a behaviour
MaxFetches == 2

\* ---- configuration of New ----
maxSizeInBytes == 10

Procs == 1..MaxFetches
\* the goroutines that call Fetch: at most one call each at a time
Goroutines == {"g1", "g2"}
ExternalKeys == {"", "a", "b"}
Sizes == {4, 6, 11}
Platforms == {"windows", "linux"}

VARIABLES GOOS, cachedFiles, lock, clock, files, pc, frame, ret, handle

vars == <<GOOS, cachedFiles, lock, clock, files, pc, frame, ret, handle>>

\* ---- data ----
EmptyPath == [dir |-> "", base |-> 0]
EmptyInfo == [ETag |-> "", LastModified |-> ""]
\* the CachingInfoType values a Download returns
CachingInfos ==
  {[ETag |-> "", LastModified |-> ""], [ETag |-> "e1", LastModified |-> ""],
   [ETag |-> "", LastModified |-> "m1"]}
CachedFile == [size |-> 0, access |-> 0, cachingInfo |-> EmptyInfo, filePath |-> EmptyPath]

\* fmt.Sprintf("%x", md5.Sum([]byte(cacheKey))), first four hex digits
Md5Hex(k) ==
  CASE k = "a" -> "0cc1"
    [] k = "b" -> "92eb"
    [] k = "c" -> "4a8a"
    [] OTHER -> "d41d"

\* Go map operations: m[k] of a missing key is the zero value
MapGet(m, k) == IF k \in DOMAIN m THEN m[k] ELSE CachedFile
MapSet(m, k, v) == [x \in DOMAIN m \cup {k} |-> IF x = k THEN v ELSE m[x]]
MapDelete(m, k) == [x \in DOMAIN m \ {k} |-> m[x]]

\* ---- file system ----
\* files maps each existing path to [size, body, open]: body is the validators
\* the origin sent with the bytes of the file, open counts the handles.
\* Where a file cannot be removed or renamed while a handle holds it open
\* (GOOS = "windows") the operation fails and its error is ignored.
Locked(fs, p) == GOOS = "windows" /\ p \in DOMAIN fs /\ fs[p].open > 0
OsCreate(fs, p) == [x \in DOMAIN fs \cup {p} |-> IF x = p THEN [size |-> 0, body |-> EmptyInfo, open |-> 1] ELSE fs[x]]
OsWrite(fs, p, n, b) == [fs EXCEPT ![p].size = n, ![p].body = b]
OsOpen(fs, p) == [fs EXCEPT ![p].open = @ + 1]
OsClose(fs, p) == IF p \in DOMAIN fs THEN [fs EXCEPT ![p].open = @ - 1] ELSE fs
OsRemoveAll(fs, p) ==
  IF p \notin DOMAIN fs \/ Locked(fs, p) THEN fs
  ELSE [x \in DOMAIN fs \ {p} |-> fs[x]]
OsRename(fs, src, dst) ==
  IF src \notin DOMAIN fs \/ Locked(fs, src) \/ Locked(fs, dst) THEN fs
  ELSE [x \in (DOMAIN fs \ {src}) \cup {dst} |-> IF x = dst THEN fs[src] ELSE fs[x]]

TempPath(p) == [dir |-> "uncached", base |-> p]
\* filepath.Join(c.cachedPath, filepath.Base(sourcePath))
CachePath(sourcePath) == [dir |-> "cached", base |-> sourcePath.base]

Frame0 ==
  [cacheKey |-> "", path |-> EmptyPath, tempFileName |-> EmptyPath,
   didDownload |-> FALSE, size |-> 0, cachingInfo |-> EmptyInfo,
   argInfo |-> EmptyInfo, usedSpace |-> 0]
Handle0 == [state |-> "none", fin |-> "none", path |-> EmptyPath, cacheKey |-> ""]
\* the io.ReadCloser a Fetch returns: the finalizer set on it and what the
\* finalizer's closure captured
ReadCloser(p, fin, path) ==
  [state |-> "open", fin |-> IF GOOS = "windows" THEN fin ELSE "none",
   path |-> path, cacheKey |-> frame[p].cacheKey]

Init ==
  /\ GOOS \in Platforms
  /\ cachedFiles = <<>>
  /\ lock = 0
  /\ clock = 0
  /\ files = <<>>
  /\ pc = [p \in Procs |-> "idle"]
  /\ frame = [p \in Procs |-> Frame0]
  /\ ret = [p \in Procs |-> ""]
  /\ handle = [p \in Procs |-> Handle0]

InProgress(p) == pc[p] \notin {"idle", "done"}

\* A call may start: calls are numbered in the order they start
CanStart(p) ==
  /\ pc[p] = "idle"
  /\ IF p = 1 THEN TRUE ELSE pc[p - 1] # "idle"
  /\ Cardinality({q \in Procs : InProgress(q)}) < Cardinality(Goroutines)

\* ---- fetchUncachedFile ----

\* Fetch(url, ""): ioutil.TempFile(c.uncachedPath, "uncached")
FetchUncachedFile(p) ==
  /\ CanStart(p)
  /\ \/ /\ files' = OsCreate(files, TempPath(p))
        /\ frame' = [frame EXCEPT ![p].tempFileName = TempPath(p)]
        /\ pc' = [pc EXCEPT ![p] = "uDownload"]
        /\ ret' = ret
     \/ /\ ret' = [ret EXCEPT ![p] = "err"]
        /\ pc' = [pc EXCEPT ![p] = "done"]
        /\ frame' = [frame EXCEPT ![p] = Frame0]
        /\ files' = files
  /\ UNCHANGED <<GOOS, cachedFiles, lock, clock, handle>>

\* Download fails: os.RemoveAll(destinationFile.Name()) with the file still open
UDownloadErr(p) ==
  /\ pc[p] = "uDownload"
  /\ files' = OsRemoveAll(files, frame[p].tempFileName)
  /\ ret' = [ret EXCEPT ![p] = "err"]
  /\ pc' = [pc EXCEPT ![p] = "done"]
  /\ frame' = [frame EXCEPT ![p] = Frame0]
  /\ UNCHANGED <<GOOS, cachedFiles, lock, clock, handle>>

\* UDownloadOk without the unlink that follows the download
UDownloadOk_NoUnlink(p, n) ==
  /\ pc[p] = "uDownload"
  /\ files' = OsWrite(files, frame[p].tempFileName, n, EmptyInfo)
  /\ handle' = [handle EXCEPT ![p] = ReadCloser(p, "none", frame[p].tempFileName)]
  /\ frame' = [frame EXCEPT ![p] = Frame0]
  /\ ret' = [ret EXCEPT ![p] = "ok"]
  /\ pc' = [pc EXCEPT ![p] = "done"]
  /\ UNCHANGED <<GOOS, cachedFiles, lock, clock>>

\* Download succeeds: finalizer or immediate unlink, Seek, return destinationFile
UDownloadOk(p, n) ==
  /\ pc[p] = "uDownload"
  /\ LET name == frame[p].tempFileName
         written == OsWrite(files, name, n, EmptyInfo)
     IN /\ files' = IF GOOS = "windows" THEN written ELSE OsRemoveAll(written, name)
        /\ handle' = [handle EXCEPT ![p] = ReadCloser(p, "uncached", name)]
  /\ frame' = [frame EXCEPT ![p] = Frame0]
  /\ ret' = [ret EXCEPT ![p] = "ok"]
  /\ pc' = [pc EXCEPT ![p] = "done"]
  /\ UNCHANGED <<GOOS, cachedFiles, lock, clock>>

\* ---- the locked helpers ----

\* recordAccessForCacheKey: f.access = time.Now()
recordAccessForCacheKey(m, cacheKey, now) ==
  MapSet(m, cacheKey, [MapGet(m, cacheKey) EXCEPT !.access = now])

\* FetchCachedFile whose access record stores a fresh entry
FetchCachedFile_FreshEntry(p, k) ==
  /\ CanStart(p)
  /\ k # ""
  /\ lock = 0
  /\ cachedFiles' = MapSet(cachedFiles, Md5Hex(k), [CachedFile EXCEPT !.access = clock + 1])
  /\ frame' = [frame EXCEPT ![p].cacheKey = Md5Hex(k)]
  /\ clock' = clock + 1
  /\ pc' = [pc EXCEPT ![p] = "pathForCacheKey"]
  /\ UNCHANGED <<GOOS, lock, files, ret, handle>>

\* Fetch(url, k) with k # "": the key is hashed; fetchCachedFile begins with
\* recordAccessForCacheKey
FetchCachedFile(p, k) ==
  /\ CanStart(p)
  /\ k # ""
  /\ lock = 0
  /\ LET cacheKey == Md5Hex(k)
     IN /\ cachedFiles' = recordAccessForCacheKey(cachedFiles, cacheKey, clock + 1)
        /\ frame' = [frame EXCEPT ![p].cacheKey = cacheKey]
  /\ clock' = clock + 1
  /\ pc' = [pc EXCEPT ![p] = "pathForCacheKey"]
  /\ UNCHANGED <<GOOS, lock, files, ret, handle>>

pathForCacheKey(m, cacheKey) == MapGet(m, cacheKey).filePath

\* path := c.pathForCacheKeyWithLock(cacheKey), then
\* ioutil.TempFile(c.uncachedPath, cacheKey+"-"); the deferred RemoveAll is
\* registered only when the file was created
PathForCacheKeyWithLock(p) ==
  /\ pc[p] = "pathForCacheKey"
  /\ lock = 0
  /\ \/ /\ files' = OsCreate(files, TempPath(p))
        /\ frame' = [frame EXCEPT ![p].path = pathForCacheKey(cachedFiles, frame[p].cacheKey),
                                  ![p].tempFileName = TempPath(p)]
        /\ pc' = [pc EXCEPT ![p] = "cachingInfo"]
        /\ ret' = ret
     \/ /\ ret' = [ret EXCEPT ![p] = "err"]
        /\ pc' = [pc EXCEPT ![p] = "done"]
        /\ frame' = [frame EXCEPT ![p] = Frame0]
        /\ files' = files
  /\ UNCHANGED <<GOOS, cachedFiles, lock, clock, handle>>

\* CachingInfoForCacheKey that returns without unlocking
CachingInfoForCacheKey_KeepsLock(p) ==
  /\ pc[p] = "cachingInfo"
  /\ lock = 0
  /\ lock' = p
  /\ frame' = [frame EXCEPT ![p].argInfo = MapGet(cachedFiles, frame[p].cacheKey).cachingInfo]
  /\ pc' = [pc EXCEPT ![p] = "Download"]
  /\ UNCHANGED <<GOOS, cachedFiles, clock, files, ret, handle>>

\* c.cachingInfoForCacheKey(cacheKey), the argument of Download
CachingInfoForCacheKey(p) ==
  /\ pc[p] = "cachingInfo"
  /\ lock = 0
  /\ frame' = [frame EXCEPT ![p].argInfo = MapGet(cachedFiles, frame[p].cacheKey).cachingInfo]
  /\ pc' = [pc EXCEPT ![p] = "Download"]
  /\ UNCHANGED <<GOOS, cachedFiles, lock, clock, files, ret, handle>>

\* DownloadErr that also drops the entry of the key
DownloadErr_RemovesEntry(p) ==
  /\ pc[p] = "Download"
  /\ LET fp == pathForCacheKey(cachedFiles, frame[p].cacheKey)
     IN files' = OsRemoveAll(IF fp # EmptyPath THEN OsRemoveAll(files, fp) ELSE files,
                             frame[p].tempFileName)
  /\ cachedFiles' = MapDelete(cachedFiles, frame[p].cacheKey)
  /\ ret' = [ret EXCEPT ![p] = "err"]
  /\ pc' = [pc EXCEPT ![p] = "done"]
  /\ frame' = [frame EXCEPT ![p] = Frame0]
  /\ UNCHANGED <<GOOS, lock, clock, handle>>

\* Download returns an error: return nil, err; the deferred RemoveAll runs
\* while tempFile is still open
DownloadErr(p) ==
  /\ pc[p] = "Download"
  /\ files' = OsRemoveAll(files, frame[p].tempFileName)
  /\ ret' = [ret EXCEPT ![p] = "err"]
  /\ pc' = [pc EXCEPT ![p] = "done"]
  /\ frame' = [frame EXCEPT ![p] = Frame0]
  /\ UNCHANGED <<GOOS, cachedFiles, lock, clock, handle>>

\* Download reports the resource unchanged (only when validators were sent);
\* nothing is written; tempFile.Close()
DownloadNotModified(p) ==
  /\ pc[p] = "Download"
  /\ frame[p].argInfo # EmptyInfo
  /\ files' = OsClose(files, frame[p].tempFileName)
  /\ frame' = [frame EXCEPT ![p].didDownload = FALSE, ![p].argInfo = EmptyInfo]
  /\ pc' = [pc EXCEPT ![p] = "Open"]
  /\ UNCHANGED <<GOOS, cachedFiles, lock, clock, ret, handle>>

\* Download writes a body of n bytes and returns the new validators;
\* tempFile.Close(); the branch on didDownload and cachingInfo
DownloadOk(p, n, info) ==
  /\ pc[p] = "Download"
  /\ files' = OsClose(OsWrite(files, frame[p].tempFileName, n, info), frame[p].tempFileName)
  /\ frame' = [frame EXCEPT ![p].didDownload = TRUE, ![p].size = n, ![p].cachingInfo = info,
                            ![p].argInfo = EmptyInfo]
  /\ pc' = [pc EXCEPT ![p] =
       IF info.ETag = "" /\ info.LastModified = "" THEN "removeCacheEntry" ELSE "setCachingInfo"]
  /\ UNCHANGED <<GOOS, cachedFiles, lock, clock, ret, handle>>

\* RemoveCacheEntryFor without the os.Remove of the entry's file
RemoveCacheEntryFor_KeepsFile(p) ==
  /\ pc[p] = "removeCacheEntry"
  /\ lock = 0
  /\ cachedFiles' = MapDelete(cachedFiles, frame[p].cacheKey)
  /\ frame' = [frame EXCEPT ![p].path = frame[p].tempFileName]
  /\ pc' = [pc EXCEPT ![p] = "Open"]
  /\ UNCHANGED <<GOOS, lock, clock, files, ret, handle>>

\* c.removeCacheEntryFor(cacheKey); path = tempFileName
RemoveCacheEntryFor(p) ==
  /\ pc[p] = "removeCacheEntry"
  /\ lock = 0
  /\ LET fp == pathForCacheKey(cachedFiles, frame[p].cacheKey)
     IN files' = IF fp # EmptyPath THEN OsRemoveAll(files, fp) ELSE files
  /\ cachedFiles' = MapDelete(cachedFiles, frame[p].cacheKey)
  /\ frame' = [frame EXCEPT ![p].path = frame[p].tempFileName]
  /\ pc' = [pc EXCEPT ![p] = "Open"]
  /\ UNCHANGED <<GOOS, lock, clock, ret, handle>>

\* c.setCachingInfoForCacheKey(cacheKey, cachingInfo)
SetCachingInfoForCacheKey(p) ==
  /\ pc[p] = "setCachingInfo"
  /\ lock = 0
  /\ LET f == MapGet(cachedFiles, frame[p].cacheKey)
     IN cachedFiles' = MapSet(cachedFiles, frame[p].cacheKey,
                              [f EXCEPT !.cachingInfo = frame[p].cachingInfo])
  /\ pc' = [pc EXCEPT ![p] = "moveFileIntoCache"]
  /\ UNCHANGED <<GOOS, lock, clock, files, frame, ret, handle>>

\* ---- moveFileIntoCache ----

RECURSIVE SumSizes(_, _)
SumSizes(m, ks) ==
  IF ks = {} THEN 0
  ELSE LET k == CHOOSE x \in ks : TRUE
       IN m[k].size + SumSizes(m, ks \ {k})

\* usedSpace: the sizes of all entries but cacheKey's
UsedSpace(m, cacheKey) == SumSizes(m, DOMAIN m \ {cacheKey})

\* The keys the scan for the oldest entry can end on: an entry other than
\* cacheKey whose access time no other such entry precedes (map iteration
\* order decides among equals); "" when there is no other entry. Every
\* recorded access time is before the time.Now() the scan starts from.
OldestCacheKeys(m, cacheKey) ==
  LET others == DOMAIN m \ {cacheKey}
  IN IF others = {} THEN {""}
     ELSE {ck \in others : \A o \in others : m[ck].access <= m[o].access}

\* Placed without the os.Rename
Placed_NoRename(fr, m) ==
  LET cachePath == CachePath(fr.tempFileName)
      f == MapGet(m, fr.cacheKey)
  IN [store |-> MapSet(m, fr.cacheKey, [f EXCEPT !.size = fr.size, !.filePath = cachePath]),
      fs |-> files,
      path |-> cachePath]

\* Lines 194-202: record size and path under cacheKey, rename the file
\* (fr is the frame of the call, m the store the loop has left)
Placed(fr, m) ==
  LET cachePath == CachePath(fr.tempFileName)
      f == MapGet(m, fr.cacheKey)
  IN [store |-> MapSet(m, fr.cacheKey, [f EXCEPT !.size = fr.size, !.filePath = cachePath]),
      fs |-> OsRename(files, fr.tempFileName, cachePath),
      path |-> cachePath]

\* moveFileIntoCache up to its return or to the first iteration of the loop:
\* a file larger than the cache is returned as it is; usedSpace; when the
\* file fits, lines 194-202; else the lock stays held
MoveFileIntoCache(p) ==
  /\ pc[p] = "moveFileIntoCache"
  /\ lock = 0
  /\ LET usedSpace == UsedSpace(cachedFiles, frame[p].cacheKey)
     IN IF frame[p].size > maxSizeInBytes
          THEN /\ frame' = [frame EXCEPT ![p].path = frame[p].tempFileName]
               /\ pc' = [pc EXCEPT ![p] = "Open"]
               /\ UNCHANGED <<lock, cachedFiles, files>>
          ELSE IF maxSizeInBytes < usedSpace + frame[p].size
          THEN /\ frame' = [frame EXCEPT ![p].usedSpace = usedSpace]
               /\ pc' = [pc EXCEPT ![p] = "makeRoom"]
               /\ lock' = p
               /\ UNCHANGED <<cachedFiles, files>>
          ELSE /\ cachedFiles' = Placed(frame[p], cachedFiles).store
               /\ files' = Placed(frame[p], cachedFiles).fs
               /\ frame' = [frame EXCEPT ![p].path = Placed(frame[p], cachedFiles).path]
               /\ pc' = [pc EXCEPT ![p] = "Open"]
               /\ lock' = lock
  /\ UNCHANGED <<GOOS, clock, ret, handle>>

\* One iteration of: for c.maxSizeInBytes < usedSpace+size { ... }
MakeRoom(p, oldestCacheKey) ==
  /\ pc[p] = "makeRoom"
  /\ lock = p
  /\ maxSizeInBytes < frame[p].usedSpace + frame[p].size
  /\ oldestCacheKey \in OldestCacheKeys(cachedFiles, frame[p].cacheKey)
  /\ frame' = [frame EXCEPT ![p].usedSpace = @ - MapGet(cachedFiles, oldestCacheKey).size]
  /\ LET fp == pathForCacheKey(cachedFiles, frame[p].cacheKey)
     IN files' = IF fp # EmptyPath THEN OsRemoveAll(files, fp) ELSE files
  /\ cachedFiles' = MapDelete(cachedFiles, frame[p].cacheKey)
  /\ UNCHANGED <<GOOS, lock, clock, pc, ret, handle>>

\* The loop has ended: lines 194-202, unlock
PlaceFile(p) ==
  /\ pc[p] = "makeRoom"
  /\ lock = p
  /\ ~(maxSizeInBytes < frame[p].usedSpace + frame[p].size)
  /\ cachedFiles' = Placed(frame[p], cachedFiles).store
  /\ files' = Placed(frame[p], cachedFiles).fs
  /\ frame' = [frame EXCEPT ![p].path = Placed(frame[p], cachedFiles).path, ![p].usedSpace = 0]
  /\ lock' = 0
  /\ pc' = [pc EXCEPT ![p] = "Open"]
  /\ UNCHANGED <<GOOS, clock, ret, handle>>

\* ---- open, return, release ----

\* os.Open(path) fails: return nil, err; the deferred RemoveAll(tempFileName)
OpenErr(p) ==
  /\ pc[p] = "Open"
  /\ frame[p].path \notin DOMAIN files
  /\ files' = OsRemoveAll(files, frame[p].tempFileName)
  /\ ret' = [ret EXCEPT ![p] = "err"]
  /\ pc' = [pc EXCEPT ![p] = "done"]
  /\ frame' = [frame EXCEPT ![p] = Frame0]
  /\ UNCHANGED <<GOOS, cachedFiles, lock, clock, handle>>

\* os.Open(path), Seek, SetFinalizer on windows, return f; the deferred
\* RemoveAll(tempFileName) runs with f open
OpenOk(p) ==
  /\ pc[p] = "Open"
  /\ frame[p].path \in DOMAIN files
  /\ files' = OsRemoveAll(OsOpen(files, frame[p].path), frame[p].tempFileName)
  /\ handle' = [handle EXCEPT ![p] =
       ReadCloser(p, IF frame[p].path = frame[p].tempFileName THEN "temp" ELSE "cached",
                  frame[p].path)]
  /\ ret' = [ret EXCEPT ![p] = "ok"]
  /\ pc' = [pc EXCEPT ![p] = "done"]
  /\ frame' = [frame EXCEPT ![p] = Frame0]
  /\ UNCHANGED <<GOOS, cachedFiles, lock, clock>>

\* The caller closes the returned io.ReadCloser
Close(p) ==
  /\ pc[p] = "done"
  /\ handle[p].state = "open"
  /\ files' = OsClose(files, handle[p].path)
  /\ handle' = [handle EXCEPT ![p].state = "closed"]
  /\ UNCHANGED <<GOOS, cachedFiles, lock, clock, pc, frame, ret>>

\* fp.Close() of a finalizer
FinClose(p) == IF handle[p].state = "open" THEN OsClose(files, handle[p].path) ELSE files

\* Finalizer of an uncached or temporary file: Close, RemoveAll
FinalizeUntracked(p) ==
  /\ pc[p] = "done"
  /\ handle[p].state \in {"open", "closed"}
  /\ handle[p].fin \in {"uncached", "temp"}
  /\ files' = OsRemoveAll(FinClose(p), handle[p].path)
  /\ handle' = [handle EXCEPT ![p].state = "finalized"]
  /\ UNCHANGED <<GOOS, cachedFiles, lock, clock, pc, frame, ret>>

\* FinalizeCached without the comparison with the entry's path
FinalizeCached_Unconditional(p) ==
  /\ pc[p] = "done"
  /\ handle[p].state \in {"open", "closed"}
  /\ handle[p].fin = "cached"
  /\ lock = 0
  /\ files' = OsRemoveAll(FinClose(p), handle[p].path)
  /\ handle' = [handle EXCEPT ![p].state = "finalized"]
  /\ UNCHANGED <<GOOS, cachedFiles, lock, clock, pc, frame, ret>>

\* Finalizer of a file opened in the cache directory: under the lock, Close,
\* and RemoveAll when the entry's path is no longer this one
FinalizeCached(p) ==
  /\ pc[p] = "done"
  /\ handle[p].state \in {"open", "closed"}
  /\ handle[p].fin = "cached"
  /\ lock = 0
  /\ LET cf == MapGet(cachedFiles, handle[p].cacheKey)
     IN files' = IF handle[p].path # cf.filePath THEN OsRemoveAll(FinClose(p), handle[p].path)
                 ELSE FinClose(p)
  /\ handle' = [handle EXCEPT ![p].state = "finalized"]
  /\ UNCHANGED <<GOOS, cachedFiles, lock, clock, pc, frame, ret>>

Next ==
  \/ \E p \in Procs : FetchUncachedFile(p)
  \/ \E p \in Procs : UDownloadErr(p)
  \/ \E p \in Procs, n \in Sizes : UDownloadOk(p, n)
  \/ \E p \in Procs, k \in ExternalKeys : FetchCachedFile(p, k)
  \/ \E p \in Procs : PathForCacheKeyWithLock(p)
  \/ \E p \in Procs : CachingInfoForCacheKey(p)
  \/ \E p \in Procs : DownloadErr(p)
  \/ \E p \in Procs : DownloadNotModified(p)
  \/ \E p \in Procs, n \in Sizes, info \in CachingInfos : DownloadOk(p, n, info)
  \/ \E p \in Procs : RemoveCacheEntryFor(p)
  \/ \E p \in Procs : SetCachingInfoForCacheKey(p)
  \/ \E p \in Procs : MoveFileIntoCache(p)
  \/ \E p \in Procs, ck \in DOMAIN cachedFiles \cup {""} : MakeRoom(p, ck)
  \/ \E p \in Procs : PlaceFile(p)
  \/ \E p \in Procs : OpenErr(p)
  \/ \E p \in Procs : OpenOk(p)
  \/ \E p \in Procs : Close(p)
  \/ \E p \in Procs : FinalizeUntracked(p)
  \/ \E p \in Procs : FinalizeCached(p)

Spec == Init /\ [][Next]_vars

\* The state after construction, or the state an earlier Fetch(url, "c")
\* leaves that returned the error of ioutil.TempFile: its access record, and
\* nothing else
InitAfterFailedFetch ==
  /\ GOOS \in Platforms
  /\ \/ cachedFiles = <<>> /\ clock = 0
     \/ cachedFiles = recordAccessForCacheKey(<<>>, Md5Hex("c"), 1) /\ clock = 1
  /\ lock = 0
  /\ files = <<>>
  /\ pc = [p \in Procs |-> "idle"]
  /\ frame = [p \in Procs |-> Frame0]
  /\ ret = [p \in Procs |-> ""]
  /\ handle = [p \in Procs |-> Handle0]

SpecAfterFailedFetch == InitAfterFailedFetch /\ [][Next]_vars

\* ---- properties ----

TotalSize(m) == SumSizes(m, DOMAIN m)
Cacheable(fr) == fr.didDownload /\ fr.cachingInfo # EmptyInfo
\* call p takes a step
Steps(p) == pc'[p] # pc[p] \/ frame'[p] # frame[p]

\* C1: after every moveFileIntoCache call has returned (the lock is free), the
\* sizes of the entries of the store sum to at most maxSizeInBytes.
C1_CapacityInvariant == lock = 0 => TotalSize(cachedFiles) <= maxSizeInBytes

\* C2: an iteration of the eviction loop removes the mapping of the entry with
\* the smallest access time among the entries other than cacheKey, and never
\* the entry of cacheKey itself.
C2_EvictsOldestOther ==
  [][\A p \in Procs :
       (pc[p] = "makeRoom" /\ pc'[p] = "makeRoom" /\ Steps(p))
       => /\ \E ck \in OldestCacheKeys(cachedFiles, frame[p].cacheKey) :
                ck \notin DOMAIN cachedFiles'
          /\ frame[p].cacheKey \in DOMAIN cachedFiles
                => frame[p].cacheKey \in DOMAIN cachedFiles']_vars

\* C3: when two Fetch calls on one key have both transferred a cacheable body
\* that fits and both have finished their store operations, the entry's
\* validators, path and size are those of one and the same of the two
\* transfers, and the size is the size of the tracked file on disk.
FromTransfer(e, fr) ==
  /\ e.cachingInfo = fr.cachingInfo
  /\ e.filePath = CachePath(fr.tempFileName)
  /\ e.size = fr.size
C3_SameKeyOneTransfer ==
  \A p, q \in Procs :
    (/\ p # q
     /\ pc[p] = "Open" /\ pc[q] = "Open"
     /\ frame[p].cacheKey = frame[q].cacheKey
     /\ Cacheable(frame[p]) /\ Cacheable(frame[q])
     /\ frame[p].size <= maxSizeInBytes /\ frame[q].size <= maxSizeInBytes)
    => LET e == MapGet(cachedFiles, frame[p].cacheKey)
       IN /\ FromTransfer(e, frame[p]) \/ FromTransfer(e, frame[q])
          /\ e.filePath \in DOMAIN files
          /\ files[e.filePath].size = e.size

\* C4: the store operations of a Fetch whose transfer is larger than
\* maxSizeInBytes leave the store as it was: nothing is registered, nothing
\* is evicted.
C4_OversizedRegistersNothing ==
  [][\A p \in Procs :
       (/\ pc[p] \in {"setCachingInfo", "moveFileIntoCache"}
        /\ Steps(p)
        /\ frame[p].size > maxSizeInBytes)
       => cachedFiles' = cachedFiles]_vars

\* C8: when a Fetch call has returned an error, the temporary file it created
\* is not in the scratch directory.
C8_NoTempFileAfterError ==
  \A p \in Procs : ret[p] = "err" => TempPath(p) \notin DOMAIN files

Released(p) ==
  \/ handle[p].state = "none"
  \/ handle[p].state = "finalized"
  \/ handle[p].state = "closed" /\ handle[p].fin = "none"
Quiescent == lock = 0 /\ \A p \in Procs : ~InProgress(p) /\ Released(p)

\* C9: when no Fetch is in progress and every returned handle is released,
\* every file of the cache directory is the filePath of exactly one entry
\* (the part of the claim about the cache directory).
C9_NoLeakedCacheFiles ==
  Quiescent =>
    \A f \in DOMAIN files :
      f.dir = "cached"
        => Cardinality({k \in DOMAIN cachedFiles : cachedFiles[k].filePath = f}) = 1

\* The steps of a Fetch call that serves a non-cacheable transfer
NonCacheable(fr) == fr.didDownload /\ fr.cachingInfo = EmptyInfo
OthersUntouched(p) ==
  /\ DOMAIN cachedFiles' \subseteq DOMAIN cachedFiles
  /\ \A k \in DOMAIN cachedFiles \ {frame[p].cacheKey} :
       k \in DOMAIN cachedFiles' /\ cachedFiles'[k] = cachedFiles[k]
ServesTempFile(p) ==
  (pc[p] = "Open" /\ Steps(p) /\ NonCacheable(frame[p]))
  => /\ ret'[p] = "ok"
     /\ handle'[p].state = "open"
     /\ handle'[p].path = frame[p].tempFileName
     /\ \A k \in DOMAIN cachedFiles' : cachedFiles'[k].filePath # handle'[p].path

\* C5 as stated: the removal of a non-cacheable fetch deletes the mapping of
\* the key and unlinks its file, leaves the other entries as they were, and
\* the call returns a handle on its temporary file, which no entry tracks.
C5_RemovesAndUnlinks ==
  [][\A p \in Procs :
       /\ (pc[p] = "removeCacheEntry" /\ Steps(p))
          => /\ frame[p].cacheKey \notin DOMAIN cachedFiles'
             /\ pathForCacheKey(cachedFiles, frame[p].cacheKey) \notin DOMAIN files'
             /\ OthersUntouched(p)
       /\ ServesTempFile(p)]_vars

\* C5 amended: as C5, but the file of the removed entry stays on disk when a
\* handle holds it open where an open file cannot be removed.
C5_RemovesAndUnlinksUnlessOpen ==
  [][\A p \in Procs :
       /\ (pc[p] = "removeCacheEntry" /\ Steps(p))
          => /\ frame[p].cacheKey \notin DOMAIN cachedFiles'
             /\ LET fp == pathForCacheKey(cachedFiles, frame[p].cacheKey)
                IN fp \notin DOMAIN files' \/ Locked(files, fp)
             /\ OthersUntouched(p)
       /\ ServesTempFile(p)]_vars

\* a non-cacheable fetch has removed the entry and the file that an earlier
\* call on the key had admitted
C5_Witness ==
  \E p, q \in Procs :
    /\ p # q
    /\ pc[p] = "Open" /\ NonCacheable(frame[p])
    /\ frame[p].path = frame[p].tempFileName
    /\ frame[p].cacheKey \notin DOMAIN cachedFiles
    /\ handle[q].cacheKey = frame[p].cacheKey
    /\ handle[q].path.dir = "cached"
    /\ handle[q].path \notin DOMAIN files

\* C6: the steps of a Fetch whose download reports "not modified" leave every
\* entry's size, filePath and validators and the total size as they were;
\* its access record changes only the access time of its key, and advances it.
NoAccess(e) == [e EXCEPT !.access = 0]
RevalidationStep(p) ==
  \/ pc[p] = "idle" /\ pc'[p] = "pathForCacheKey"
  \/ pc[p] \in {"pathForCacheKey", "cachingInfo"}
  \/ pc[p] = "Download" /\ pc'[p] = "Open" /\ ~frame'[p].didDownload
  \/ pc[p] = "Open" /\ ~frame[p].didDownload
C6_RevalidationIdempotent ==
  [][\A p \in Procs :
       (Steps(p) /\ RevalidationStep(p))
       => /\ \A k \in DOMAIN cachedFiles \cup DOMAIN cachedFiles' :
               /\ NoAccess(MapGet(cachedFiles', k)) = NoAccess(MapGet(cachedFiles, k))
               /\ k # frame'[p].cacheKey
                    => MapGet(cachedFiles', k).access = MapGet(cachedFiles, k).access
          /\ TotalSize(cachedFiles') = TotalSize(cachedFiles)
          /\ pc[p] = "idle"
               => MapGet(cachedFiles', frame'[p].cacheKey).access
                    > MapGet(cachedFiles, frame'[p].cacheKey).access]_vars

\* a revalidation of a tracked entry got "not modified" and is about to serve it
C6_Witness ==
  \E p \in Procs :
    LET e == MapGet(cachedFiles, frame[p].cacheKey)
    IN /\ pc[p] = "Open" /\ ~frame[p].didDownload
       /\ e.filePath # EmptyPath /\ e.filePath = frame[p].path
       /\ e.cachingInfo # EmptyInfo
       /\ e.access = clock

\* C7: the steps of a Fetch with the empty key and the release of its handle
\* leave the store and the cache directory as they were; the file of the
\* returned handle is gone from the scratch directory on return where open
\* files can be removed, and in any case once the handle is released.
CacheDir(fs) == {f \in DOMAIN fs : f.dir = "cached"}
UncachedStep(p) ==
  \/ Steps(p) /\ pc[p] = "idle" /\ pc'[p] # "pathForCacheKey"
  \/ Steps(p) /\ pc[p] = "uDownload"
  \/ handle'[p] # handle[p] /\ handle[p].state # "none" /\ handle[p].cacheKey = ""
C7_Bypass ==
  /\ [](\A p \in Procs :
          (/\ handle[p].state # "none" /\ handle[p].cacheKey = ""
           /\ GOOS # "windows" \/ handle[p].state = "finalized")
          => handle[p].path \notin DOMAIN files)
  /\ [][\A p \in Procs :
          UncachedStep(p)
          => /\ cachedFiles' = cachedFiles
             /\ CacheDir(files') = CacheDir(files)
             /\ \A f \in CacheDir(files) : files'[f] = files[f]]_vars

\* an uncached fetch returned next to a populated store, and its finalizer
\* has removed the file
C7_Witness ==
  \E p \in Procs :
    /\ handle[p].state = "finalized" /\ handle[p].cacheKey = ""
    /\ handle[p].path \notin DOMAIN files
    /\ \E k \in DOMAIN cachedFiles : cachedFiles[k].filePath \in DOMAIN files

\* C10: the release of a handle (Close or a finalizer) deletes no file other
\* than the handle's own and never a file that is the filePath of an entry;
\* the finalizer of a handle on a cache path deletes its file only under the
\* lock and only when the filePath of the handle's key is another path.
C10_ReleaseKeepsTrackedFiles ==
  [][\A p \in Procs :
       (handle[p].state \in {"open", "closed"} /\ handle'[p].state # handle[p].state)
       => /\ \A f \in DOMAIN files \ DOMAIN files' :
               /\ f = handle[p].path
               /\ \A k \in DOMAIN cachedFiles : cachedFiles[k].filePath # f
               /\ handle[p].fin = "cached"
                    => lock = 0 /\ pathForCacheKey(cachedFiles, handle[p].cacheKey) # f
          /\ cachedFiles' = cachedFiles]_vars

\* the finalizer of a handle on a tracked path has run and the file is still there
C10_Witness ==
  \E p \in Procs :
    /\ handle[p].state = "finalized" /\ handle[p].fin = "cached"
    /\ pathForCacheKey(cachedFiles, handle[p].cacheKey) = handle[p].path
    /\ handle[p].path \in DOMAIN files

\* C11: no call holds the lock while it is inside Download; the lock is held
\* only by a call inside the loop of moveFileIntoCache.
C11_NoLockAcrossDownload ==
  /\ \A p \in Procs : pc[p] \in {"Download", "uDownload"} => lock # p
  /\ lock # 0 => pc[lock] = "makeRoom"

\* while call p is inside Download, a call on another key that started after
\* p's access record has admitted its file
C11_Witness ==
  \E p, q \in Procs :
    /\ pc[p] = "Download" /\ pc[q] = "Open"
    /\ frame[p].cacheKey # frame[q].cacheKey
    /\ pathForCacheKey(cachedFiles, frame[q].cacheKey) = CachePath(TempPath(q))
    /\ MapGet(cachedFiles, frame[q].cacheKey).access
         > MapGet(cachedFiles, frame[p].cacheKey).access
    /\ lock = 0

\* no other call on the key of call p is in progress or has returned a handle
AloneOnKey(p) ==
  \A q \in Procs \ {p} :
    frame[q].cacheKey # frame[p].cacheKey /\ handle[q].cacheKey # frame[p].cacheKey

\* C12: when a Fetch that is alone on its key has transferred a cacheable
\* body that fits and has finished its store operations, the entry of the
\* key has the new validators, the transferred size and the cache path that
\* the call is about to open, also when the admission had to make room.
C12_CacheablePostState ==
  \A p \in Procs :
    (/\ pc[p] = "Open" /\ Cacheable(frame[p])
     /\ frame[p].size <= maxSizeInBytes
     /\ AloneOnKey(p))
    => /\ FromTransfer(MapGet(cachedFiles, frame[p].cacheKey), frame[p])
       /\ frame[p].path = CachePath(frame[p].tempFileName)

\* C13: when the call that recorded the latest access is alone on its key and
\* has finished its store operations, a resident entry of its key has an
\* access time not before that record (the access time of a key never goes
\* back).
C13_AccessNotBeforeRecord ==
  \A p \in Procs :
    (/\ pc[p] = "Open" /\ AloneOnKey(p)
     /\ \A q \in Procs : q > p => pc[q] = "idle"
     /\ frame[p].cacheKey \in DOMAIN cachedFiles)
    => cachedFiles[frame[p].cacheKey].access >= clock

\* C14: a call whose download reported "not modified" opens the path the
\* store tracks for its key at that moment (stated for a key that has a
\* tracked path).
C14_ServesTrackedPath ==
  \A p \in Procs :
    (/\ pc[p] = "Open" /\ ~frame[p].didDownload
     /\ pathForCacheKey(cachedFiles, frame[p].cacheKey) # EmptyPath)
    => frame[p].path = pathForCacheKey(cachedFiles, frame[p].cacheKey)

\* C18: when no Fetch is in progress, an entry with validators has a path
\* whose file is the body that was transferred with those validators.
C18_ValidatorsMatchContent ==
  (\A p \in Procs : ~InProgress(p))
  => \A k \in DOMAIN cachedFiles :
       cachedFiles[k].cachingInfo # EmptyInfo
       => /\ cachedFiles[k].filePath \in DOMAIN files
          /\ files[cachedFiles[k].filePath].body = cachedFiles[k].cachingInfo

\* C16: every entry with a filePath has a file at that path in the cache
\* directory whose size is the entry's size; an entry without filePath has
\* size 0; no two entries have the same filePath.
C16_TrackedPathsMaterialized ==
  \A k \in DOMAIN cachedFiles :
    LET e == cachedFiles[k]
    IN IF e.filePath = EmptyPath THEN e.size = 0
       ELSE /\ e.filePath.dir = "cached"
            /\ e.filePath \in DOMAIN files
            /\ files[e.filePath].size = e.size
            /\ \A j \in DOMAIN cachedFiles : j # k => cachedFiles[j].filePath # e.filePath

\* two entries are tracked with their files, one of them admitted after the
\* loop of moveFileIntoCache ran, while a reader's handle is still open
C16_Witness ==
  \E j, k \in DOMAIN cachedFiles :
    /\ j # k
    /\ cachedFiles[j].filePath \in DOMAIN files
    /\ cachedFiles[k].filePath \in DOMAIN files
    /\ cachedFiles[k].access = 0
    /\ \E p \in Procs : handle[p].state = "open" /\ handle[p].path = cachedFiles[j].filePath

\* C17: the steps of a Fetch on a key whose download returns an error change
\* nothing in the store but the access time of that key (an absent entry is
\* created empty), and create or delete no file of the cache directory.
FailedTransferStep(p) ==
  \/ pc[p] = "idle" /\ pc'[p] = "pathForCacheKey"
  \/ pc[p] \in {"pathForCacheKey", "cachingInfo"}
  \/ pc[p] = "Download" /\ pc'[p] = "done"
C17_FailedTransferKeepsStore ==
  [][\A p \in Procs :
       (Steps(p) /\ FailedTransferStep(p))
       => /\ \A k \in DOMAIN cachedFiles \cup DOMAIN cachedFiles' :
               IF k = frame'[p].cacheKey \/ k = frame[p].cacheKey
                 THEN NoAccess(MapGet(cachedFiles', k)) = NoAccess(MapGet(cachedFiles, k))
                 ELSE k \in DOMAIN cachedFiles /\ k \in DOMAIN cachedFiles'
                      /\ cachedFiles'[k] = cachedFiles[k]
          /\ DOMAIN cachedFiles \subseteq DOMAIN cachedFiles'
          /\ CacheDir(files') = CacheDir(files)]_vars

\* the second call failed in its download on a key whose entry and file an
\* earlier call had admitted: the entry still tracks that file
C17_Witness ==
  \E p, q \in Procs :
    /\ p # q
    /\ ret[p] = "err" /\ TempPath(p) \in DOMAIN files
    /\ handle[q].state # "none" /\ handle[q].cacheKey \in DOMAIN cachedFiles
    /\ LET e == cachedFiles[handle[q].cacheKey]
       IN /\ e.filePath = handle[q].path /\ e.filePath \in DOMAIN files
          /\ e.cachingInfo # EmptyInfo
          /\ e.access = clock /\ clock >= 2

\* C15: the loop of moveFileIntoCache ends: whenever an iteration is about to
\* run, the entry it picks as oldest has a size above 0, so that usedSpace
\* goes down (the picked entry stays in the map and is picked again).
C15_MakeRoomTerminates ==
  \A p \in Procs :
    (pc[p] = "makeRoom" /\ maxSizeInBytes < frame[p].usedSpace + frame[p].size)
    => \A ck \in OldestCacheKeys(cachedFiles, frame[p].cacheKey) :
         MapGet(cachedFiles, ck).size > 0

====
